---- MODULE Spec2Model ----
(***************************************************************************)
(* A model of the card scanners of cgp-scanner-demo.                       *)
(*                                                                         *)
(*  - the server-backed scanner (React component that posts every frame   *)
(*    to /api/identify-card and confirms a card after three agreeing      *)
(*    hits): startScanning, stopScanning, scanAgain, checkForValidHit,    *)
(*    captureAndPredict;                                                   *)
(*  - the embedding scanner (React component that runs MobileNet in the   *)
(*    browser and applies the threshold + margin policy per frame);       *)
(*  - the identify-card API (handler, findNearestCard, extractEmbedding); *)
(*  - the classifier scanner (React component that classifies every frame *)
(*    with a graph model in the browser).                                  *)
(*                                                                         *)
(* Similarities are numbers of percent (the API multiplies the cosine by  *)
(* 100); cosine scores of the embedding scanner are counted in hundredths.*)
(* Both are modelled as integers.                                          *)
(***************************************************************************)
EXTENDS Integers, Sequences, FiniteSets, TLC

\* null of a string-valued state (error)
NULL == "null"
\* null of a handle (streamRef.current, intervalRef.current); handles are positive
NoRef == 0
\* null / a value, for states that hold a record or null (validHit)
None == <<>>
Some(x) == <<x>>

\* Card ids of the reference corpus (<id>_<label>).
Cards == {"sv09-001_Caterpie", "sv09-003_Butterfree"}

(***************************************************************************)
(* Bounds of the model.                                                    *)
(***************************************************************************)
\* frames captured in one behaviour of the concurrent scanner
MaxFrames == 3
\* camera requests (Start / Scan Again clicks) in one behaviour
MaxStarts == 2
\* identify requests that may be in flight at once
MaxInflight == 2
\* frames captured in one behaviour of the long-running session
LongFrames == 11
\* camera requests in one behaviour of the long-running session
LongStarts == 2
\* longest hit history given to checkForValidHit on its own
MaxLen == 4
\* cards in the catalog of the embedding scanner
MaxCatalog == 2
\* camera requests in one behaviour of the embedding scanner
EmbStarts == 1
\* camera requests in one behaviour of the embedding scanner that is restarted
EmbRestarts == 2
\* camera requests in one behaviour of the classifier scanner
ClsStarts == 2
\* frames captured in one behaviour of the classifier scanner
ClsFrames == 3
\* entries of the catalog given to findNearestCard on its own
NearestEntries == 3
\* entries of the catalog of the identify-card API
MaxEntries == 2
\* per-inference tensors the identify-card API may have leaked
MaxLeaked == 4
\* the largest videoWidth and videoHeight of a frame handed to the crop
MaxDim == 12
\* the scale factors drawn divide each mode's range into ScaleSteps parts
ScaleSteps == 10
\* the longest card label, in tokens
MaxLabel == 3
\* the most files of the training-data directory
MaxFiles == 3
\* the most /api/scan requests the hash API receives
MaxScans == 2

(***************************************************************************)
(* Program constants.                                                      *)
(***************************************************************************)
\* checkForValidHit: newHitHistory.length < 3, slice(-3), / 3
CONFIRM_WINDOW == 3
\* checkForValidHit: hit.similarity > 65
CONFIRM_THRESHOLD == 65
\* captureAndPredict: updated.slice(-10)
HISTORY_CAP == 10

\* What an identify response may carry in the scanner runs: a card and a
\* similarity in percent, above (70) or below (40) the confirmation threshold.
ScanHits == {[cardId |-> "sv09-001_Caterpie", similarity |-> 70],
             [cardId |-> "sv09-003_Butterfree", similarity |-> 70],
             [cardId |-> "sv09-001_Caterpie", similarity |-> 40]}
\* What it may carry in the long session.
LongHits == {[cardId |-> "sv09-001_Caterpie", similarity |-> 70],
             [cardId |-> "sv09-003_Butterfree", similarity |-> 70]}
\* Similarities around the confirmation threshold, for checkForValidHit alone.
FnSims == {65, 66, 68, 70, 90}

VARIABLES
    mounted,        \* videoRef.current / canvasRef.current are set (component mounted)
    isScanning,     \* useState isScanning
    validHit,       \* useState validHit: None or Some([cardId, similarity])
    hitHistory,     \* useState hitHistory: sequence of hits, newest last
    error,          \* useState error
    streamRef,      \* streamRef.current: NoRef or the id of a MediaStream
    intervalRef,    \* intervalRef.current: NoRef or the id of a setInterval timer
    liveStreams,    \* MediaStreams whose tracks have not been stopped
    liveTimers,     \* setInterval timers that have not been cleared
    pendingStarts,  \* getUserMedia calls awaiting the user's answer
    nextReq,        \* id of the next getUserMedia call
    inflight,       \* captureAndPredict invocations awaiting fetch()
    nextFrame,      \* number of the next captured frame
    lastOp,         \* the handler that ran last
    arg,            \* argument of a function applied on its own
    ret,            \* its result
    result,         \* embedding scanner: useState result, None or Some([cardId, confidence])
    modelLoaded,    \* embedding scanner: mobilenetRef.current set, isModelLoaded
    embeddings,     \* embedding scanner: embeddingsRef.current, the card ids in entry order
    frameScores,    \* embedding scanner: the cosine scores of the frame evaluated last
    cachedModel,    \* identify-card API: cachedModel is set
    cachedEmbeddings, \* identify-card API: cachedEmbeddings, None or Some(entries)
    numTensors,     \* identify-card API: tf.memory().numTensors of per-inference tensors
    firstCardIdRef, \* classifier scanner: firstCardIdRef.current, NULL or a card id
    hashDatabase,   \* hash API: hashDatabase.cards, the perceptual hash of every card
    tempScan,       \* hash API: the file temp-scan.png, None or Some(content)
    tempProcessed,  \* hash API: the file temp-processed.png, None or Some(content)
    scanReqs        \* hash API: the /api/scan requests being handled, by request id

scanVars == <<mounted, isScanning, validHit, hitHistory, error, streamRef, intervalRef,
              liveStreams, liveTimers, pendingStarts, nextReq, inflight, nextFrame>>
fnVars == <<arg, ret>>
embVars == <<result, modelLoaded, embeddings, frameScores>>
apiVars == <<cachedModel, cachedEmbeddings, numTensors>>
clsVars == <<firstCardIdRef>>
hashVars == <<hashDatabase, tempScan, tempProcessed, scanReqs>>
vars == <<scanVars, lastOp, fnVars, embVars, apiVars, clsVars, hashVars>>

(***************************************************************************)
(* Array helpers.                                                          *)
(***************************************************************************)
\* Array.prototype.slice(-n): the last n elements (all of them when shorter).
SliceLast(s, n) ==
    IF Len(s) <= n THEN s ELSE SubSeq(s, Len(s) - n + 1, Len(s))

\* The variant reports the newest hit's similarity as the confidence.
SumSimilarityOfLast(s) ==
    IF s = <<>> THEN 0 ELSE Len(s) * s[Len(s)].similarity

\* Array.prototype.reduce((sum, hit) => sum + hit.similarity, 0)
RECURSIVE SumSimilarity(_)
SumSimilarity(s) ==
    IF s = <<>> THEN 0 ELSE SumSimilarity(SubSeq(s, 1, Len(s) - 1)) + s[Len(s)].similarity

(***************************************************************************)
(* checkForValidHit: three consecutive hits on the same card, each above  *)
(* 65 percent. The average is kept exact as sum / 3 (num, den); cardName  *)
(* is display text derived from cardId and is left out.                   *)
(***************************************************************************)
\* The variant accepts a similarity of exactly 65 (>= for >).
AtOrAboveThreshold(hit) == hit.similarity >= CONFIRM_THRESHOLD
AboveThreshold(hit) == hit.similarity > CONFIRM_THRESHOLD

checkForValidHit(newHitHistory) ==
    IF Len(newHitHistory) < CONFIRM_WINDOW THEN None
    ELSE LET lastThree == SliceLast(newHitHistory, CONFIRM_WINDOW)
             firstCardId == lastThree[1].cardId
             allSameCard == \A i \in 1..Len(lastThree) : lastThree[i].cardId = firstCardId
             allAboveThreshold == \A i \in 1..Len(lastThree) : AboveThreshold(lastThree[i])
         IN  IF ~allSameCard THEN None
             ELSE IF ~allAboveThreshold THEN None
             ELSE Some([cardId |-> firstCardId,
                        similarity |-> [num |-> SumSimilarity(lastThree),
                                        den |-> CONFIRM_WINDOW]])

(***************************************************************************)
(* The server-backed scanner.                                              *)
(***************************************************************************)
InitScanner ==
    /\ mounted = TRUE
    /\ isScanning = FALSE
    /\ validHit = None
    /\ hitHistory = <<>>
    /\ error = NULL
    /\ streamRef = NoRef
    /\ intervalRef = NoRef
    /\ liveStreams = {}
    /\ liveTimers = {}
    /\ pendingStarts = {}
    /\ nextReq = 1
    /\ inflight = {}
    /\ nextFrame = 1

InitFnIdle ==
    /\ arg = <<>>
    /\ ret = None

\* An identify request that was in flight when scanning stopped (bookkeeping
\* of the model: the code keeps no such mark).
MarkStale(reqs) == {[r EXCEPT !.stale = TRUE] : r \in reqs}

\* startScanning up to its await: clears the error, the valid hit and the
\* history, then asks for the camera.
startScanningRequest ==
    /\ error' = NULL
    /\ validHit' = None
    /\ hitHistory' = <<>>
    /\ pendingStarts' = pendingStarts \cup {nextReq}
    /\ nextReq' = nextReq + 1

\* The variant clears the timer and returns before it releases the stream.
stopScanningTimerOnly(reqs) ==
    /\ liveTimers' = IF intervalRef # NoRef THEN liveTimers \ {intervalRef} ELSE liveTimers
    /\ intervalRef' = NoRef
    /\ isScanning' = FALSE
    /\ inflight' = MarkStale(reqs)
    /\ UNCHANGED <<liveStreams, streamRef>>

\* stopScanning: clears the recorded timer, stops the recorded stream, drops
\* both handles, isScanning false. reqs are the requests left in flight.
stopScanning(reqs) ==
    /\ liveTimers' = IF intervalRef # NoRef THEN liveTimers \ {intervalRef} ELSE liveTimers
    /\ intervalRef' = NoRef
    /\ liveStreams' = IF streamRef # NoRef THEN liveStreams \ {streamRef} ELSE liveStreams
    /\ streamRef' = NoRef
    /\ isScanning' = FALSE
    /\ inflight' = MarkStale(reqs)

\* The Start Scanner button: shown while !validHit && !isScanning.
ClickStart(maxStarts) ==
    /\ mounted
    /\ validHit = None
    /\ ~isScanning
    /\ nextReq <= maxStarts
    /\ startScanningRequest
    /\ lastOp' = "startScanning"
    /\ UNCHANGED <<mounted, isScanning, streamRef, intervalRef, liveStreams, liveTimers,
                   inflight, nextFrame, fnVars, hashVars, apiVars, clsVars, embVars>>

\* The variant restarts the camera and keeps the old history.
scanAgainKeepsHistory(maxStarts) ==
    /\ mounted
    /\ validHit # None
    /\ nextReq <= maxStarts
    /\ error' = NULL
    /\ validHit' = None
    /\ pendingStarts' = pendingStarts \cup {nextReq}
    /\ nextReq' = nextReq + 1
    /\ lastOp' = "scanAgain"
    /\ UNCHANGED <<mounted, isScanning, hitHistory, streamRef, intervalRef, liveStreams,
                   liveTimers, inflight, nextFrame, fnVars, hashVars, apiVars, clsVars, embVars>>

\* The Scan Again button: shown while validHit.
ScanAgain(maxStarts) ==
    /\ mounted
    /\ validHit # None
    /\ nextReq <= maxStarts
    /\ startScanningRequest
    /\ lastOp' = "scanAgain"
    /\ UNCHANGED <<mounted, isScanning, streamRef, intervalRef, liveStreams, liveTimers,
                   inflight, nextFrame, fnVars, hashVars, apiVars, clsVars, embVars>>

\* getUserMedia resolves: startScanning resumes after its await.
CameraGranted(id) ==
    /\ id \in pendingStarts
    /\ pendingStarts' = pendingStarts \ {id}
    /\ liveStreams' = liveStreams \cup {id}
    /\ IF mounted
       THEN /\ streamRef' = id
            /\ isScanning' = TRUE
            /\ intervalRef' = id
            /\ liveTimers' = liveTimers \cup {id}
       ELSE UNCHANGED <<streamRef, isScanning, intervalRef, liveTimers>>
    /\ lastOp' = "cameraGranted"
    /\ UNCHANGED <<mounted, validHit, hitHistory, error, nextReq, inflight, nextFrame, fnVars, hashVars, apiVars, clsVars, embVars>>

\* The variant sets isScanning although no stream was obtained.
CameraDeniedStarts(id) ==
    /\ id \in pendingStarts
    /\ pendingStarts' = pendingStarts \ {id}
    /\ error' = IF mounted THEN "Failed to access camera" ELSE error
    /\ isScanning' = TRUE
    /\ lastOp' = "cameraDenied"
    /\ UNCHANGED <<mounted, validHit, hitHistory, streamRef, intervalRef,
                   liveStreams, liveTimers, nextReq, inflight, nextFrame, fnVars, hashVars, apiVars,
                   clsVars, embVars>>

\* getUserMedia rejects: the catch block of startScanning.
CameraDenied(id) ==
    /\ id \in pendingStarts
    /\ pendingStarts' = pendingStarts \ {id}
    /\ error' = IF mounted THEN "Failed to access camera" ELSE error
    /\ lastOp' = "cameraDenied"
    /\ UNCHANGED <<mounted, isScanning, validHit, hitHistory, streamRef, intervalRef,
                   liveStreams, liveTimers, nextReq, inflight, nextFrame, fnVars, hashVars, apiVars, clsVars, embVars>>

\* The Stop Scanner button: shown while !validHit && isScanning.
ClickStop ==
    /\ mounted
    /\ validHit = None
    /\ isScanning
    /\ stopScanning(inflight)
    /\ lastOp' = "stopScanning"
    /\ UNCHANGED <<mounted, validHit, hitHistory, error, pendingStarts, nextReq, nextFrame,
                   fnVars, hashVars, apiVars, clsVars, embVars>>

\* The cleanup of useEffect: stopScanning on unmount.
Unmount ==
    /\ mounted
    /\ mounted' = FALSE
    /\ stopScanning(inflight)
    /\ lastOp' = "unmount"
    /\ UNCHANGED <<validHit, hitHistory, error, pendingStarts, nextReq, nextFrame, fnVars, hashVars, apiVars, clsVars, embVars>>

\* A tick of a live timer: captureAndPredict up to its await. The frame is
\* captured and the identify request sent when the refs are set and the
\* video has data (a stream is attached).
Tick(t, maxInflight, maxFrames) ==
    /\ t \in liveTimers
    /\ mounted
    /\ streamRef # NoRef
    /\ nextFrame <= maxFrames
    /\ Cardinality(inflight) < maxInflight
    /\ inflight' = inflight \cup {[frame |-> nextFrame, stale |-> FALSE]}
    /\ nextFrame' = nextFrame + 1
    /\ lastOp' = "captureAndPredict"
    /\ UNCHANGED <<mounted, isScanning, validHit, hitHistory, error, streamRef, intervalRef,
                   liveStreams, liveTimers, pendingStarts, nextReq, fnVars, hashVars, apiVars, clsVars, embVars>>

\* "Keep only last 10 hits": updated.slice(-10). The variant keeps the first
\* ten instead (slice(0, 10)).
keepFirstHits(updated) == SubSeq(updated, 1, IF Len(updated) < HISTORY_CAP THEN Len(updated)
                                                                          ELSE HISTORY_CAP)
keepLastHits(updated) == SliceLast(updated, HISTORY_CAP)

\* The updater given to setHitHistory, with the setValidHit and stopScanning
\* calls it makes.
appendHit(r, newHit) ==
    LET updated == Append(hitHistory, newHit)
        validResult == checkForValidHit(updated)
    IN  /\ IF validResult # None
           THEN /\ validHit' = validResult
                /\ stopScanning(inflight \ {r})
           ELSE /\ inflight' = inflight \ {r}
                /\ UNCHANGED <<validHit, liveTimers, intervalRef, liveStreams, streamRef,
                               isScanning>>
        /\ hitHistory' = keepLastHits(updated)

\* The variant applies a single-frame policy: a top match below 50 percent is
\* dropped instead of appended.
RespondWithPolicy(r, body) ==
    /\ r \in inflight
    /\ IF mounted /\ body.similarity >= 50
       THEN appendHit(r, [cardId |-> body.cardId, similarity |-> body.similarity,
                          frame |-> r.frame, stale |-> r.stale])
       ELSE /\ inflight' = inflight \ {r}
            /\ UNCHANGED <<validHit, hitHistory, liveTimers, intervalRef, liveStreams,
                           streamRef, isScanning>>
    /\ lastOp' = "response"
    /\ UNCHANGED <<mounted, error, pendingStarts, nextReq, nextFrame, fnVars, hashVars, apiVars, clsVars, embVars>>

\* fetch resolves with an OK response: captureAndPredict resumes after its
\* await. After unmount React drops the state update.
Respond(r, body) ==
    /\ r \in inflight
    /\ IF mounted
       THEN appendHit(r, [cardId |-> body.cardId, similarity |-> body.similarity,
                          frame |-> r.frame, stale |-> r.stale])
       ELSE /\ inflight' = inflight \ {r}
            /\ UNCHANGED <<validHit, hitHistory, liveTimers, intervalRef, liveStreams,
                           streamRef, isScanning>>
    /\ lastOp' = "response"
    /\ UNCHANGED <<mounted, error, pendingStarts, nextReq, nextFrame, fnVars, hashVars, apiVars, clsVars, embVars>>

\* The variant ends the session on a failed request.
RespondErrorStops(r) ==
    /\ r \in inflight
    /\ stopScanning(inflight \ {r})
    /\ lastOp' = "responseError"
    /\ UNCHANGED <<mounted, validHit, hitHistory, error, pendingStarts, nextReq, nextFrame,
                   fnVars, hashVars, apiVars, clsVars, embVars>>

\* fetch rejects or the response is not OK: the catch block logs the error.
RespondError(r) ==
    /\ r \in inflight
    /\ inflight' = inflight \ {r}
    /\ lastOp' = "responseError"
    /\ UNCHANGED <<mounted, isScanning, validHit, hitHistory, error, streamRef, intervalRef,
                   liveStreams, liveTimers, pendingStarts, nextReq, nextFrame, fnVars, hashVars, apiVars, clsVars, embVars>>

InitEmbIdle ==
    /\ result = None
    /\ modelLoaded = FALSE
    /\ embeddings = <<>>
    /\ frameScores = <<>>

\* The module state of api/identify-card.ts before the first request.
InitApiIdle ==
    /\ cachedModel = FALSE
    /\ cachedEmbeddings = None
    /\ numTensors = 0

\* The classifier scanner's ref before the first detection.
InitClsIdle ==
    firstCardIdRef = NULL

\* The hash API before startServer.
InitHashIdle ==
    /\ hashDatabase = <<>>
    /\ tempScan = None
    /\ tempProcessed = None
    /\ scanReqs = <<>>

Init ==
    /\ InitScanner
    /\ InitFnIdle
    /\ InitEmbIdle
    /\ InitApiIdle
    /\ InitClsIdle
    /\ InitHashIdle
    /\ lastOp = "mount"

Next ==
    \/ ClickStart(MaxStarts)
    \/ ScanAgain(MaxStarts)
    \/ \E id \in 1..MaxStarts : CameraGranted(id)
    \/ \E id \in 1..MaxStarts : CameraDenied(id)
    \/ ClickStop
    \/ Unmount
    \/ \E t \in 1..MaxStarts : Tick(t, MaxInflight, MaxFrames)
    \/ \E r \in inflight, body \in ScanHits : Respond(r, body)
    \/ \E r \in inflight : RespondError(r)

Spec == Init /\ [][Next]_vars

(***************************************************************************)
(* The same scanner in a long session: the server answers every request   *)
(* before the next tick (one request in flight) and the user only starts  *)
(* and scans again.                                                        *)
(***************************************************************************)
NextLong ==
    \/ ClickStart(LongStarts)
    \/ ScanAgain(LongStarts)
    \/ \E id \in 1..LongStarts : CameraGranted(id)
    \/ \E t \in 1..LongStarts : Tick(t, 1, LongFrames)
    \/ \E r \in inflight, body \in LongHits : Respond(r, body)

SpecLong == Init /\ [][NextLong]_vars

(***************************************************************************)
(* checkForValidHit on its own: every hit history of at most MaxLen hits  *)
(* over the cards and the similarities around the threshold.               *)
(***************************************************************************)
FnHits == [cardId : Cards, similarity : FnSims]
Histories == UNION {[1..n -> FnHits] : n \in 0..MaxLen}

InitValidHit ==
    /\ InitScanner
    /\ InitEmbIdle
    /\ InitApiIdle
    /\ InitClsIdle
    /\ InitHashIdle
    /\ arg \in Histories
    /\ ret = None
    /\ lastOp = "input"

ApplyCheckForValidHit ==
    /\ lastOp = "input"
    /\ ret' = checkForValidHit(arg)
    /\ lastOp' = "checkForValidHit"
    /\ UNCHANGED <<scanVars, hashVars, arg, embVars, apiVars, clsVars>>

SpecValidHit == InitValidHit /\ [][ApplyCheckForValidHit]_vars

(***************************************************************************)
(* The embedding scanner (client/src/App.tsx): MobileNet runs in the       *)
(* browser; every frame is scored against the catalog and the threshold + *)
(* margin policy decides what is displayed. captureAndPredict has no      *)
(* await: a tick runs it to its end. Scores are cosines in hundredths;    *)
(* cardName and debugImage are display data and are left out.             *)
(***************************************************************************)
\* MIN_SIMILARITY = 0.5 and MIN_MARGIN = 0.05, in hundredths
MIN_SIMILARITY == 50
MIN_MARGIN == 5
\* -Infinity, below every cosine
NegInfinity == -1000
\* NaN, what the division of a zero vector by its zero norm yields; it is
\* told apart from every score and compared with Gt only
NaN == 99999
\* a > b of JavaScript numbers: false when either side is NaN
Gt(a, b) == a # NaN /\ b # NaN /\ a > b

\* The ids of card_embeddings.json, in entry order.
CatalogIds == <<"sv09-001_Caterpie", "sv09-003_Butterfree", "sv10-001_Ethan_s_Pinsir">>
\* Cosines a frame may score against a card, around the two thresholds.
EmbScores == {45, 49, 50, 54, 96, 100}

\* The loop over Object.entries(embeddingsRef.current): the first card with
\* the strictly greatest score; idx 0 is bestCardId null.
RECURSIVE bestMatch(_, _, _, _)
bestMatch(scores, i, bestIdx, bestScore) ==
    IF i > Len(scores) THEN [idx |-> bestIdx, score |-> bestScore]
    ELSE IF Gt(scores[i], bestScore) THEN bestMatch(scores, i + 1, i, scores[i])
    ELSE bestMatch(scores, i + 1, bestIdx, bestScore)

\* allScores.sort((a, b) => b.score - a.score)
RECURSIVE insertDesc(_, _)
insertDesc(x, s) ==
    IF s = <<>> THEN <<x>>
    ELSE IF x > Head(s) THEN <<x>> \o s
    ELSE <<Head(s)>> \o insertDesc(x, Tail(s))
RECURSIVE sortDesc(_)
sortDesc(s) == IF s = <<>> THEN <<>> ELSE insertDesc(Head(s), sortDesc(Tail(s)))

\* allScores.length > 1 ? allScores[1].score : -Infinity
secondBest(scores) ==
    IF Len(scores) > 1 THEN sortDesc(scores)[2] ELSE NegInfinity

\* The variant rejects only when both checks fail (&& for ||).
policyRejectsBoth(bestScore, secondBestScore) ==
    bestScore < MIN_SIMILARITY /\ bestScore - secondBestScore < MIN_MARGIN
\* bestScore < MIN_SIMILARITY || bestScore - secondBestScore < MIN_MARGIN
policyRejects(bestScore, secondBestScore) ==
    bestScore < MIN_SIMILARITY \/ bestScore - secondBestScore < MIN_MARGIN

\* loadModelAndEmbeddings succeeds with a catalog of n cards.
EmbLoad(n) ==
    /\ mounted
    /\ ~modelLoaded
    /\ error = NULL
    /\ modelLoaded' = TRUE
    /\ embeddings' = SubSeq(CatalogIds, 1, n)
    /\ lastOp' = "loadModelAndEmbeddings"
    /\ UNCHANGED <<scanVars, fnVars, hashVars, apiVars, clsVars, result, frameScores>>

\* loadModelAndEmbeddings fails: the catch block.
EmbLoadFailed ==
    /\ mounted
    /\ ~modelLoaded
    /\ error = NULL
    /\ error' = "Failed to load model or embeddings"
    /\ lastOp' = "loadFailed"
    /\ UNCHANGED <<mounted, isScanning, validHit, hitHistory, streamRef, intervalRef,
                   liveStreams, liveTimers, pendingStarts, nextReq, inflight, nextFrame,
                   fnVars, hashVars, apiVars, clsVars, embVars>>

\* The Start Scanner button (shown while !isScanning, enabled once
\* isModelLoaded): startScanning up to its await.
EmbClickStart(maxStarts) ==
    /\ mounted
    /\ ~isScanning
    /\ modelLoaded
    /\ nextReq <= maxStarts
    /\ IF Len(embeddings) = 0
       THEN /\ error' = "Model or embeddings not loaded yet"
            /\ UNCHANGED <<pendingStarts, nextReq>>
       ELSE /\ error' = NULL
            /\ pendingStarts' = pendingStarts \cup {nextReq}
            /\ nextReq' = nextReq + 1
    /\ lastOp' = "startScanning"
    /\ UNCHANGED <<mounted, isScanning, validHit, hitHistory, streamRef, intervalRef,
                   liveStreams, liveTimers, inflight, nextFrame, fnVars, hashVars, apiVars, clsVars, embVars>>

\* getUserMedia resolves: startScanning resumes after its await.
EmbCameraGranted(id) ==
    /\ id \in pendingStarts
    /\ pendingStarts' = pendingStarts \ {id}
    /\ liveStreams' = liveStreams \cup {id}
    /\ IF mounted
       THEN /\ streamRef' = id
            /\ isScanning' = TRUE
            /\ intervalRef' = id
            /\ liveTimers' = liveTimers \cup {id}
       ELSE UNCHANGED <<streamRef, isScanning, intervalRef, liveTimers>>
    /\ lastOp' = "cameraGranted"
    /\ UNCHANGED <<mounted, validHit, hitHistory, error, nextReq, inflight, nextFrame,
                   fnVars, hashVars, apiVars, clsVars, embVars>>

\* getUserMedia rejects: the catch block of startScanning.
EmbCameraDenied(id) ==
    /\ id \in pendingStarts
    /\ pendingStarts' = pendingStarts \ {id}
    /\ error' = IF mounted THEN "Failed to access camera" ELSE error
    /\ lastOp' = "cameraDenied"
    /\ UNCHANGED <<mounted, isScanning, validHit, hitHistory, streamRef, intervalRef,
                   liveStreams, liveTimers, nextReq, inflight, nextFrame, fnVars, hashVars, apiVars, clsVars, embVars>>

\* stopScanning of the embedding scanner.
embStopScanning ==
    /\ liveTimers' = IF intervalRef # NoRef THEN liveTimers \ {intervalRef} ELSE liveTimers
    /\ intervalRef' = NoRef
    /\ liveStreams' = IF streamRef # NoRef THEN liveStreams \ {streamRef} ELSE liveStreams
    /\ streamRef' = NoRef
    /\ isScanning' = FALSE

\* The Stop Scanner button: shown while isScanning.
EmbClickStop ==
    /\ mounted
    /\ isScanning
    /\ embStopScanning
    /\ lastOp' = "stopScanning"
    /\ UNCHANGED <<mounted, validHit, hitHistory, error, pendingStarts, nextReq, inflight,
                   nextFrame, fnVars, hashVars, apiVars, clsVars, embVars>>

\* The cleanup of useEffect: stopScanning, the embeddings disposed, the model
\* dropped.
EmbUnmount ==
    /\ mounted
    /\ mounted' = FALSE
    /\ embStopScanning
    /\ embeddings' = <<>>
    /\ modelLoaded' = FALSE
    /\ lastOp' = "unmount"
    /\ UNCHANGED <<validHit, hitHistory, error, pendingStarts, nextReq, inflight, nextFrame,
                   fnVars, hashVars, apiVars, clsVars, result, frameScores>>

\* A tick of a live timer: captureAndPredict. scores[i] is the cosine of the
\* frame's embedding and the i-th card's.
EmbTick(t, scores) ==
    /\ t \in liveTimers
    /\ mounted
    /\ modelLoaded
    /\ streamRef # NoRef
    /\ LET best == bestMatch(scores, 1, 0, NegInfinity)
           bestScore == best.score
           secondBestScore == secondBest(scores)
       IN  result' =
               IF best.idx = 0 THEN result
               ELSE IF policyRejects(bestScore, secondBestScore) THEN None
               ELSE Some([cardId |-> embeddings[best.idx], confidence |-> bestScore])
    /\ frameScores' = scores
    /\ lastOp' = "captureAndPredict"
    /\ UNCHANGED <<scanVars, fnVars, hashVars, apiVars, clsVars, modelLoaded, embeddings>>

\* The same tick on a frame whose embedding has norm zero: emb1d.div(norm) is
\* NaN in every component, and so is every score.
EmbTickZeroNorm(t) ==
    /\ t \in liveTimers
    /\ mounted
    /\ modelLoaded
    /\ streamRef # NoRef
    /\ LET scores == [i \in 1..Len(embeddings) |-> NaN]
           best == bestMatch(scores, 1, 0, NegInfinity)
       IN  /\ result' =
                  IF best.idx = 0 THEN result
                  ELSE IF policyRejects(best.score, secondBest(scores)) THEN None
                  ELSE Some([cardId |-> embeddings[best.idx], confidence |-> best.score])
           /\ frameScores' = scores
    /\ lastOp' = "captureZeroNorm"
    /\ UNCHANGED <<scanVars, fnVars, hashVars, apiVars, clsVars, modelLoaded, embeddings>>

\* The same tick when a step of the try block throws (fromPixels, infer,
\* dot): the catch block logs the error.
EmbTickThrows(t) ==
    /\ t \in liveTimers
    /\ mounted
    /\ modelLoaded
    /\ streamRef # NoRef
    /\ lastOp' = "captureThrows"
    /\ UNCHANGED <<scanVars, fnVars, hashVars, apiVars, clsVars, embVars>>

\* The same tick while video.videoWidth or video.videoHeight is zero: the
\* early return before the crop geometry.
EmbTickNotReady(t) ==
    /\ t \in liveTimers
    /\ mounted
    /\ modelLoaded
    /\ streamRef # NoRef
    /\ lastOp' = "captureNotReady"
    /\ UNCHANGED <<scanVars, fnVars, hashVars, apiVars, clsVars, embVars>>

NextEmb ==
    \/ \E n \in 0..MaxCatalog : EmbLoad(n)
    \/ EmbLoadFailed
    \/ EmbClickStart(EmbStarts)
    \/ \E id \in 1..EmbStarts : EmbCameraGranted(id)
    \/ \E id \in 1..EmbStarts : EmbCameraDenied(id)
    \/ EmbClickStop
    \/ EmbUnmount
    \/ \E t \in 1..EmbStarts, scores \in [1..Len(embeddings) -> EmbScores] : EmbTick(t, scores)
    \/ \E t \in 1..EmbStarts : EmbTickZeroNorm(t)
    \/ \E t \in 1..EmbStarts : EmbTickThrows(t)
    \/ \E t \in 1..EmbStarts : EmbTickNotReady(t)

SpecEmb == Init /\ [][NextEmb]_vars

\* The embedding scanner stopped and started again.
NextEmbRestart ==
    \/ \E n \in 0..MaxCatalog : EmbLoad(n)
    \/ EmbLoadFailed
    \/ EmbClickStart(EmbRestarts)
    \/ \E id \in 1..EmbRestarts : EmbCameraGranted(id)
    \/ \E id \in 1..EmbRestarts : EmbCameraDenied(id)
    \/ EmbClickStop
    \/ EmbUnmount
    \/ \E t \in 1..EmbRestarts, scores \in [1..Len(embeddings) -> EmbScores] : EmbTick(t, scores)
    \/ \E t \in 1..EmbRestarts : EmbTickZeroNorm(t)
    \/ \E t \in 1..EmbRestarts : EmbTickThrows(t)
    \/ \E t \in 1..EmbRestarts : EmbTickNotReady(t)

SpecEmbRestart == Init /\ [][NextEmbRestart]_vars

(***************************************************************************)
(* The identify-card API (api/identify-card.ts). A query embedding is      *)
(* described by what the code reads of it: whether it is NaN (the L2       *)
(* normalisation of a zero vector divides by a zero norm) and its cosine   *)
(* with every catalog entry. Cosines of this section are counted in        *)
(* tenths; the response carries percent. cardName is display text derived  *)
(* from cardId and is left out.                                            *)
(***************************************************************************)
\* bestMatch = { cardId: '', similarity: -1 }
NoMatch == [cardId |-> "", similarity |-> -10]

\* cosineSimilarity(queryEmbedding, entry.embedding) for the i-th entry: NaN
\* for a NaN query (normA is NaN, not 0), the cosine otherwise.
cosineSimilarity(queryEmbedding, i) ==
    IF queryEmbedding.nan THEN NaN ELSE queryEmbedding.cos[i]

\* The loop of findNearestCard over embeddings.embeddings[i..].
RECURSIVE nearestFrom(_, _, _, _)
nearestFrom(queryEmbedding, entries, i, best) ==
    IF i > Len(entries) THEN best
    ELSE LET similarity == cosineSimilarity(queryEmbedding, i)
         IN  IF Gt(similarity, best.similarity)
             THEN nearestFrom(queryEmbedding, entries, i + 1,
                              [cardId |-> entries[i], similarity |-> similarity])
             ELSE nearestFrom(queryEmbedding, entries, i + 1, best)

findNearestCard(queryEmbedding, entries) ==
    nearestFrom(queryEmbedding, entries, 1, NoMatch)

\* match.similarity * 100: tenths of a cosine to percent; NaN stays NaN.
toPercentage(similarity) == IF similarity = NaN THEN NaN ELSE similarity * 10

\* findNearestCard on its own: catalogs of at most NearestEntries entries
\* (card_id of every entry, several entries may belong to one card).
NearestSims == {-10, 0, 5, 9}
NearestInputs ==
    UNION {{[catalog |-> c, cos |-> k, nan |-> b] :
               c \in [1..n -> Cards], k \in [1..n -> NearestSims], b \in BOOLEAN} :
           n \in 0..NearestEntries}

InitNearest ==
    /\ InitScanner
    /\ InitEmbIdle
    /\ InitApiIdle
    /\ InitClsIdle
    /\ InitHashIdle
    /\ arg \in NearestInputs
    /\ ret = None
    /\ lastOp = "input"

ApplyFindNearestCard ==
    /\ lastOp = "input"
    /\ ret' = findNearestCard(arg, arg.catalog)
    /\ lastOp' = "findNearestCard"
    /\ UNCHANGED <<scanVars, hashVars, arg, embVars, apiVars, clsVars>>

SpecNearest == InitNearest /\ [][ApplyFindNearestCard]_vars

\* What a request carries and what its handling meets:
\*   method     the HTTP method
\*   image      req.body.image: "absent" (missing or falsy), "notString" (a
\*              truthy value without split), "noComma" (a string without a
\*              comma), "undecodable" (a data URL whose bytes are no image),
\*              "decodable"
\*   modelLoads mobilenet.load succeeds (read when the model is not cached)
\*   disk       public/embeddings/embeddings.json: None when it cannot be
\*              read or parsed, Some(entries) otherwise (read when the
\*              embeddings are not cached)
\*   throwsAt   the step of extractEmbedding that throws, or "none"
\*   nan, cos   the query embedding
Methods == {"POST", "GET"}
ApiSims == {-10, 5, 9}
ApiCatalogs == UNION {[1..n -> Cards] : n \in 0..MaxEntries}
ThrowPoints == {"none", "resize", "infer", "data"}
baseRequest == [method |-> "POST", image |-> "decodable", modelLoads |-> TRUE,
                disk |-> None, throwsAt |-> "none", nan |-> FALSE, cos |-> <<>>]

\* Tensors that extractEmbedding has allocated when the step throws:
\* imageTensor; imageTensor, resized; imageTensor, resized, embeddingTensor.
allocatedAt(throwsAt) ==
    IF throwsAt = "resize" THEN 1
    ELSE IF throwsAt = "infer" THEN 2
    ELSE IF throwsAt = "data" THEN 3
    ELSE 0

\* The requests that differ in what the handler reads of them in the
\* current state.
Requests ==
    LET early == {[baseRequest EXCEPT !.method = "GET"]}
                 \cup {[baseRequest EXCEPT !.image = i] : i \in {"absent", "notString", "noComma"}}
        loads == IF cachedModel THEN {TRUE} ELSE BOOLEAN
        disks == IF cachedEmbeddings # None THEN {None}
                 ELSE {None} \cup {Some(c) : c \in ApiCatalogs}
        late == UNION {
                    IF ~l \/ (cachedEmbeddings = None /\ d = None)
                    THEN {[baseRequest EXCEPT !.modelLoads = l, !.disk = d]}
                    ELSE LET entries == IF cachedEmbeddings # None THEN cachedEmbeddings[1]
                                        ELSE d[1]
                         IN  {[baseRequest EXCEPT !.modelLoads = l, !.disk = d,
                                                  !.image = "undecodable"]}
                             \cup {[baseRequest EXCEPT !.modelLoads = l, !.disk = d,
                                                       !.throwsAt = t] :
                                       t \in {x \in ThrowPoints \ {"none"} :
                                                  numTensors + allocatedAt(x) <= MaxLeaked}}
                             \cup {[baseRequest EXCEPT !.modelLoads = l, !.disk = d,
                                                       !.nan = TRUE]}
                             \cup {[baseRequest EXCEPT !.modelLoads = l, !.disk = d,
                                                       !.cos = k] :
                                       k \in [1..Len(entries) -> ApiSims]} :
                    l \in loads, d \in disks}
    IN  early \cup late

\* A response: the status, the JSON body of a success (None for an error
\* body) and the statement of the handler that returned.
response(status, body, stage) == [status |-> status, body |-> body, stage |-> stage]

\* The handler: what it answers and what it leaves in the module state.
handler(req) ==
    IF req.method # "POST"
    THEN /\ ret' = response(405, None, "method")
         /\ UNCHANGED apiVars
    ELSE IF req.image = "absent"
    THEN /\ ret' = response(400, None, "noImage")
         /\ UNCHANGED apiVars
    ELSE IF req.image \in {"notString", "noComma"}
    THEN \* image.split is not a function / Buffer.from(undefined, 'base64') throws
         /\ ret' = response(500, None, "decodeBase64")
         /\ UNCHANGED apiVars
    ELSE IF ~cachedModel /\ ~req.modelLoads
    THEN /\ ret' = response(500, None, "loadModel")
         /\ UNCHANGED apiVars
    ELSE IF cachedEmbeddings = None /\ req.disk = None
    THEN /\ ret' = response(500, None, "loadEmbeddings")
         /\ cachedModel' = TRUE
         /\ UNCHANGED <<cachedEmbeddings, numTensors>>
    ELSE LET embeddingsDb == IF cachedEmbeddings # None THEN cachedEmbeddings ELSE req.disk
         IN  /\ cachedModel' = TRUE
             /\ cachedEmbeddings' = embeddingsDb
             /\ IF req.image = "undecodable"
                THEN /\ ret' = response(500, None, "decodeImage")
                     /\ UNCHANGED numTensors
                ELSE IF req.throwsAt # "none"
                THEN /\ ret' = response(500, None, req.throwsAt)
                     /\ numTensors' = numTensors + allocatedAt(req.throwsAt)
                ELSE LET match == findNearestCard(req, embeddingsDb[1])
                     IN  /\ ret' = response(200,
                                            Some([cardId |-> match.cardId,
                                                  similarity |-> toPercentage(match.similarity)]),
                                            "done")
                         /\ UNCHANGED numTensors

\* A request arrives and is answered.
Handle(req) ==
    /\ arg' = req
    /\ handler(req)
    /\ lastOp' = "handler"
    /\ UNCHANGED <<scanVars, embVars, clsVars, hashVars>>

NextApi == \E req \in Requests : Handle(req)

SpecApi == Init /\ [][NextApi]_vars

(***************************************************************************)
(* The classifier scanner (src/unnamed/part_001): a graph model classifies *)
(* every frame in the browser; the first confident detection is only      *)
(* remembered, a confident detection of another card is displayed and     *)
(* stops the scanner. captureAndPredict awaits predictions.data().        *)
(* Confidences are counted in hundredths.                                  *)
(***************************************************************************)
\* confidence > 0.5, in hundredths
CLS_THRESHOLD == 50
\* Confidences of the top class, at and above the threshold.
ClsConfidences == {50, 51}

\* loadModel succeeds.
ClsLoad ==
    /\ mounted
    /\ ~modelLoaded
    /\ error = NULL
    /\ modelLoaded' = TRUE
    /\ lastOp' = "loadModel"
    /\ UNCHANGED <<scanVars, fnVars, hashVars, apiVars, clsVars, result, embeddings, frameScores>>

\* startScanning of the classifier scanner up to its await.
clsStartScanning ==
    /\ error' = NULL
    /\ pendingStarts' = pendingStarts \cup {nextReq}
    /\ nextReq' = nextReq + 1

\* The Start Scanner button: shown while !isScanning, enabled once
\* isModelLoaded.
ClsClickStart ==
    /\ mounted
    /\ ~isScanning
    /\ modelLoaded
    /\ nextReq <= ClsStarts
    /\ clsStartScanning
    /\ lastOp' = "startScanning"
    /\ UNCHANGED <<mounted, isScanning, validHit, hitHistory, streamRef, intervalRef,
                   liveStreams, liveTimers, inflight, nextFrame, fnVars, hashVars, apiVars, clsVars,
                   embVars>>

\* The Scan Again button: shown while result.
ClsScanAgain ==
    /\ mounted
    /\ result # None
    /\ modelLoaded
    /\ nextReq <= ClsStarts
    /\ result' = None
    /\ firstCardIdRef' = NULL
    /\ clsStartScanning
    /\ lastOp' = "scanAgain"
    /\ UNCHANGED <<mounted, isScanning, validHit, hitHistory, streamRef, intervalRef,
                   liveStreams, liveTimers, inflight, nextFrame, fnVars, hashVars, apiVars,
                   modelLoaded, embeddings, frameScores>>

\* getUserMedia resolves: startScanning resumes after its await.
ClsCameraGranted(id) ==
    /\ id \in pendingStarts
    /\ pendingStarts' = pendingStarts \ {id}
    /\ liveStreams' = liveStreams \cup {id}
    /\ IF mounted
       THEN /\ streamRef' = id
            /\ isScanning' = TRUE
            /\ intervalRef' = id
            /\ liveTimers' = liveTimers \cup {id}
       ELSE UNCHANGED <<streamRef, isScanning, intervalRef, liveTimers>>
    /\ lastOp' = "cameraGranted"
    /\ UNCHANGED <<mounted, validHit, hitHistory, error, nextReq, inflight, nextFrame,
                   fnVars, hashVars, apiVars, clsVars, embVars>>

\* getUserMedia rejects: the catch block of startScanning.
ClsCameraDenied(id) ==
    /\ id \in pendingStarts
    /\ pendingStarts' = pendingStarts \ {id}
    /\ error' = IF mounted THEN "Failed to access camera" ELSE error
    /\ lastOp' = "cameraDenied"
    /\ UNCHANGED <<mounted, isScanning, validHit, hitHistory, streamRef, intervalRef,
                   liveStreams, liveTimers, nextReq, inflight, nextFrame, fnVars, hashVars, apiVars,
                   clsVars, embVars>>

\* stopScanning of the classifier scanner; reqs are the predictions left
\* awaited.
clsStopScanning(reqs) ==
    /\ liveTimers' = IF intervalRef # NoRef THEN liveTimers \ {intervalRef} ELSE liveTimers
    /\ intervalRef' = NoRef
    /\ liveStreams' = IF streamRef # NoRef THEN liveStreams \ {streamRef} ELSE liveStreams
    /\ streamRef' = NoRef
    /\ isScanning' = FALSE
    /\ inflight' = {[r EXCEPT !.stale = TRUE] : r \in reqs}

\* The Stop Scanner button: shown while isScanning.
ClsClickStop ==
    /\ mounted
    /\ isScanning
    /\ clsStopScanning(inflight)
    /\ lastOp' = "stopScanning"
    /\ UNCHANGED <<mounted, validHit, hitHistory, error, pendingStarts, nextReq, nextFrame,
                   fnVars, hashVars, apiVars, clsVars, embVars>>

\* The cleanup of useEffect: stopScanning, the model disposed.
ClsUnmount ==
    /\ mounted
    /\ mounted' = FALSE
    /\ clsStopScanning(inflight)
    /\ lastOp' = "unmount"
    /\ UNCHANGED <<validHit, hitHistory, error, pendingStarts, nextReq, nextFrame,
                   fnVars, hashVars, apiVars, clsVars, embVars>>

\* A tick of a live timer: captureAndPredict up to its await. ready tells
\* whether video.videoWidth and video.videoHeight are both non-zero. When
\* one is zero the crop comes out as sWidth = 0, sHeight = 0, and drawImage
\* with an empty source rectangle either throws (drawThrows, the catch block
\* logs it) or paints nothing, after which the blank canvas is classified.
ClsTick(t, ready, drawThrows) ==
    /\ t \in liveTimers
    /\ mounted
    /\ modelLoaded
    /\ streamRef # NoRef
    /\ nextFrame <= ClsFrames
    /\ ready => ~drawThrows
    /\ IF drawThrows
       THEN /\ lastOp' = "captureThrows"
            /\ UNCHANGED inflight
       ELSE /\ lastOp' = "captureAndPredict"
            /\ inflight' = inflight \cup {[frame |-> nextFrame, stale |-> FALSE,
                                            ready |-> ready]}
    /\ nextFrame' = nextFrame + 1
    /\ UNCHANGED <<mounted, isScanning, validHit, hitHistory, error, streamRef, intervalRef,
                   liveStreams, liveTimers, pendingStarts, nextReq, fnVars, hashVars, apiVars, clsVars,
                   embVars>>

\* predictions.data() resolves: captureAndPredict resumes after its await
\* with the top class and its confidence. After unmount React drops the
\* state update.
ClsPredicted(r, cardId, confidence) ==
    /\ r \in inflight
    /\ IF confidence > CLS_THRESHOLD /\ firstCardIdRef = NULL
       THEN /\ firstCardIdRef' = cardId
            /\ inflight' = inflight \ {r}
            /\ UNCHANGED <<result, liveTimers, intervalRef, liveStreams, streamRef,
                           isScanning>>
       ELSE IF confidence > CLS_THRESHOLD /\ cardId # firstCardIdRef
       THEN /\ result' = IF mounted THEN Some([cardId |-> cardId, confidence |-> confidence])
                         ELSE result
            /\ clsStopScanning(inflight \ {r})
            /\ UNCHANGED firstCardIdRef
       ELSE /\ inflight' = inflight \ {r}
            /\ UNCHANGED <<result, firstCardIdRef, liveTimers, intervalRef, liveStreams,
                           streamRef, isScanning>>
    /\ lastOp' = "predicted"
    /\ UNCHANGED <<mounted, validHit, hitHistory, error, pendingStarts, nextReq, nextFrame,
                   fnVars, hashVars, apiVars, modelLoaded, embeddings, frameScores>>

NextCls ==
    \/ ClsLoad
    \/ ClsClickStart
    \/ ClsScanAgain
    \/ \E id \in 1..ClsStarts : ClsCameraGranted(id)
    \/ \E id \in 1..ClsStarts : ClsCameraDenied(id)
    \/ ClsClickStop
    \/ ClsUnmount
    \/ \E t \in 1..ClsStarts, ready \in BOOLEAN, drawThrows \in BOOLEAN :
           ClsTick(t, ready, drawThrows)
    \/ \E r \in inflight, cardId \in Cards, confidence \in ClsConfidences :
           ClsPredicted(r, cardId, confidence)

SpecCls == Init /\ [][NextCls]_vars

(***************************************************************************)
(* Properties.                                                             *)
(***************************************************************************)

(***************************************************************************)
(* The center crop of captureAndPredict: the part of the video frame that *)
(* is drawn on the canvas. JavaScript computes it in floating point; the  *)
(* model keeps every length exact, as a whole number of CropUnit-ths of a *)
(* pixel, which every quotient by the aspect and by 2 divides.            *)
(***************************************************************************)
\* CARD_ASPECT = 320 / 440 (TARGET_ASPECT = TARGET_WIDTH / TARGET_HEIGHT in
\* client/src/App.tsx), kept as the fraction
CARD_ASPECT == [num |-> 320, den |-> 440]
CropUnit == 2 * CARD_ASPECT.num * CARD_ASPECT.den

\* The variant crops the wrong axis.
tallerThanCard(videoWidth, videoHeight) ==
    videoWidth * CARD_ASPECT.den < videoHeight * CARD_ASPECT.num

\* videoAspect > CARD_ASPECT, cross-multiplied
widerThanCard(videoWidth, videoHeight) ==
    videoWidth * CARD_ASPECT.den > videoHeight * CARD_ASPECT.num

\* sx, sy, sWidth, sHeight of drawImage, in CropUnit-ths of a pixel; None
\* when the frame is skipped because a dimension is zero.
centerCrop(videoWidth, videoHeight) ==
    IF videoWidth = 0 \/ videoHeight = 0 THEN None
    ELSE IF widerThanCard(videoWidth, videoHeight)
    THEN LET sHeight == videoHeight * CropUnit
             sWidth == (sHeight * CARD_ASPECT.num) \div CARD_ASPECT.den
         IN  Some([sx |-> (videoWidth * CropUnit - sWidth) \div 2, sy |-> 0,
                   sWidth |-> sWidth, sHeight |-> sHeight])
    ELSE LET sWidth == videoWidth * CropUnit
             sHeight == (sWidth * CARD_ASPECT.den) \div CARD_ASPECT.num
         IN  Some([sx |-> 0, sy |-> (videoHeight * CropUnit - sHeight) \div 2,
                   sWidth |-> sWidth, sHeight |-> sHeight])

InitCrop ==
    /\ InitScanner
    /\ InitEmbIdle
    /\ InitApiIdle
    /\ InitClsIdle
    /\ InitHashIdle
    /\ arg \in [videoWidth : 0..MaxDim, videoHeight : 0..MaxDim]
    /\ ret = None
    /\ lastOp = "input"

ApplyCenterCrop ==
    /\ lastOp = "input"
    /\ ret' = centerCrop(arg.videoWidth, arg.videoHeight)
    /\ lastOp' = "centerCrop"
    /\ UNCHANGED <<scanVars, hashVars, arg, embVars, apiVars, clsVars>>

SpecCrop == InitCrop /\ [][ApplyCenterCrop]_vars

(***************************************************************************)
(* The background modes of the augmentation script: the card is scaled   *)
(* and composited on a TARGET_WIDTH x TARGET_HEIGHT background at a      *)
(* jittered offset. Scale factors are in thousandths; the two random     *)
(* draws of randomInt are inputs.                                         *)
(***************************************************************************)
TARGET_WIDTH == 320
TARGET_HEIGHT == 440

Max(a, b) == IF a >= b THEN a ELSE b
Min(a, b) == IF a <= b THEN a ELSE b

\* Math.round(target * scaleFactor), scaleFactor in thousandths
scaled(target, scaleFactor) == (target * scaleFactor + 500) \div 1000

\* Math.floor(maxOffset * 0.2) and Math.floor(maxOffset * 0.4): the jitter
\* factor in tenths
jitterOf(target, newSize, tenths) == ((target - newSize) * tenths) \div 10

\* The variant puts the card's corner at the middle of the frame, unclamped.
offsetFromMiddle(target, newSize, draw) == target \div 2 + draw

\* Math.max(0, Math.min(base + randomInt(-jitter, jitter), target - newSize))
\* with base = Math.floor(maxOffset / 2); draw is what randomInt returned
offsetOf(target, newSize, draw) ==
    LET maxOffset == target - newSize
        base == maxOffset \div 2
    IN  Max(0, Min(base + draw, target - newSize))

composite(scaleFactor, drawX, drawY) ==
    LET newWidth == scaled(TARGET_WIDTH, scaleFactor)
        newHeight == scaled(TARGET_HEIGHT, scaleFactor)
    IN  [newWidth |-> newWidth, newHeight |-> newHeight,
         offsetX |-> offsetOf(TARGET_WIDTH, newWidth, drawX),
         offsetY |-> offsetOf(TARGET_HEIGHT, newHeight, drawY)]

\* addBackground: scale 0.85 to 0.95, jitter 0.2; placeCardInScene: scale
\* 0.6 to 0.9, jitter 0.4
Modes == {[name |-> "addBackground", lo |-> 850, hi |-> 950, tenths |-> 2],
          [name |-> "placeCardInScene", lo |-> 600, hi |-> 900, tenths |-> 4]}
ScaleFactors(mode) ==
    {mode.lo + ((mode.hi - mode.lo) * k) \div ScaleSteps : k \in 0..ScaleSteps}
\* randomInt(-jitter, jitter): every integer from -jitter to jitter
randomInt(min, max) == min..max
Draws(mode, target, scaleFactor) ==
    LET jitter == jitterOf(target, scaled(target, scaleFactor), mode.tenths)
    IN  randomInt(-jitter, jitter)

InitPlace ==
    /\ InitScanner
    /\ InitEmbIdle
    /\ InitApiIdle
    /\ InitClsIdle
    /\ InitHashIdle
    /\ \E m \in Modes : \E f \in ScaleFactors(m) :
           \E x \in Draws(m, TARGET_WIDTH, f), y \in Draws(m, TARGET_HEIGHT, f) :
               arg = [mode |-> m.name, scaleFactor |-> f, drawX |-> x, drawY |-> y]
    /\ ret = None
    /\ lastOp = "input"

ApplyComposite ==
    /\ lastOp = "input"
    /\ ret' = Some(composite(arg.scaleFactor, arg.drawX, arg.drawY))
    /\ lastOp' = "composite"
    /\ UNCHANGED <<scanVars, hashVars, arg, embVars, apiVars, clsVars>>

SpecPlace == InitPlace /\ [][ApplyComposite]_vars

(***************************************************************************)
(* File names of the training data. A string is a sequence of tokens: a   *)
(* set id, "_", a word of a card name, "original", "aug", a digit, an     *)
(* extension. No token is part of another, so searching, splitting and    *)
(* replacing by token act as the string methods do by character.          *)
(***************************************************************************)
AUGMENTATIONS_PER_IMAGE == 10
Digits == <<"0", "1", "2", "3", "4", "5", "6", "7", "8", "9">>
Extensions == {".png", ".jpg", ".jpeg"}

\* String.prototype.indexOf: the first position of sub in str, 0 when absent
indexOf(str, sub) ==
    LET at == {i \in 1..(Len(str) - Len(sub) + 1) :
                  SubSeq(str, i, i + Len(sub) - 1) = sub}
    IN  IF at = {} THEN 0 ELSE CHOOSE i \in at : \A j \in at : i <= j
\* String.prototype.lastIndexOf
lastIndexOf(str, sub) ==
    LET at == {i \in 1..(Len(str) - Len(sub) + 1) :
                  SubSeq(str, i, i + Len(sub) - 1) = sub}
    IN  IF at = {} THEN 0 ELSE CHOOSE i \in at : \A j \in at : i >= j
includes(str, sub) == indexOf(str, sub) # 0
\* str.replace(sub, ''): the first occurrence only
removeFirst(str, sub) ==
    LET i == indexOf(str, sub)
    IN  IF i = 0 THEN str
        ELSE SubSeq(str, 1, i - 1) \o SubSeq(str, i + Len(sub), Len(str))
\* str.split(sub)[0]
beforeFirst(str, sub) ==
    LET i == indexOf(str, sub)
    IN  IF i = 0 THEN str ELSE SubSeq(str, 1, i - 1)
\* filename.replace(/\.(png|jpg|jpeg)$/i, '') and path.parse(file).name
stemOf(filename) ==
    IF filename # <<>> /\ filename[Len(filename)] \in Extensions
    THEN SubSeq(filename, 1, Len(filename) - 1) ELSE filename

\* parseCardIdFromFilename of the embeddings database builder
parseCardIdFromFilename(filename) ==
    LET stem == stemOf(filename)
    IN  IF includes(stem, <<"_", "original">>) THEN removeFirst(stem, <<"_", "original">>)
        ELSE IF includes(stem, <<"_", "aug">>) THEN beforeFirst(stem, <<"_", "aug">>)
        ELSE stem

\* getCardIdFromStem of the mean-embeddings builder: parts = stem.split("_"),
\* last = the part after the last "_" (the stem when it has none)
getCardIdFromStem(stem) ==
    LET k == lastIndexOf(stem, <<"_">>)
        last == SubSeq(stem, k + 1, Len(stem))
    IN  IF last = <<"original">> \/ (last # <<>> /\ last[1] = "aug")
        THEN SubSeq(stem, 1, k - 1)
        ELSE stem

\* The files processCardImage writes for a card: <cardId>_original.png and
\* <cardId>_aug<i>.png for i = 0 .. AUGMENTATIONS_PER_IMAGE - 1.
originalName(cardId) == cardId \o <<"_", "original", ".png">>
augName(cardId, i) == cardId \o <<"_", "aug", Digits[i + 1], ".png">>
processCardImage(cardId) ==
    <<originalName(cardId)>> \o [i \in 1..AUGMENTATIONS_PER_IMAGE |-> augName(cardId, i - 1)]

\* Card ids <id>_<label> as download-cards names them: the label is the
\* card name with every character outside [a-z0-9] replaced by "_".
LabelTokens == {"Caterpie", "_", "aug", "original"}
Labels == UNION {[1..n -> LabelTokens] : n \in 1..MaxLabel}
CardIdsOfPattern == {<<"sv09-001", "_">> \o label : label \in Labels}

InitParse ==
    /\ InitScanner
    /\ InitEmbIdle
    /\ InitApiIdle
    /\ InitClsIdle
    /\ InitHashIdle
    /\ arg \in [cardId : CardIdsOfPattern]
    /\ ret = None
    /\ lastOp = "input"

\* The augmentation script writes the card's files.
ApplyProcessCardImage ==
    /\ lastOp = "input"
    /\ ret' = Some([files |-> processCardImage(arg.cardId)])
    /\ lastOp' = "processCardImage"
    /\ UNCHANGED <<scanVars, hashVars, arg, embVars, apiVars, clsVars>>

\* Both builders parse the card id of every file written.
ApplyParse ==
    /\ lastOp = "processCardImage"
    /\ LET files == ret[1].files
       IN  ret' = Some([files |-> files,
                        parsed |-> [i \in 1..Len(files) |-> parseCardIdFromFilename(files[i])],
                        grouped |-> [i \in 1..Len(files) |-> getCardIdFromStem(stemOf(files[i]))]])
    /\ lastOp' = "parse"
    /\ UNCHANGED <<scanVars, hashVars, arg, embVars, apiVars, clsVars>>

SpecParse == InitParse /\ [][ApplyProcessCardImage \/ ApplyParse]_vars

(***************************************************************************)
(* The two catalog builders on one training-data directory. An input      *)
(* names whether the directory exists and lists its image files, each     *)
(* with whether its embedding can be extracted. A run yields the exit     *)
(* code, the JSON file written (None when none is) and the copy deployed  *)
(* to the client. Embedding vectors are left out of the entries.          *)
(***************************************************************************)
TrainingCards == {<<"sv09-001", "_", "Caterpie">>, <<"sv09-003", "_", "Butterfree">>}
TrainingFiles == {originalName(c) : c \in TrainingCards} \cup {augName(c, 0) : c \in TrainingCards}

noRun(code) == [exit |-> code, persisted |-> None, deployed |-> None]

\* The variant counts the card before it extracts the embedding.
processImageCountsFirst(acc, file) ==
    LET cardId == parseCardIdFromFilename(file.filename)
        counted == IF cardId \in DOMAIN acc.cardIdCounts
                   THEN [acc.cardIdCounts EXCEPT ![cardId] = @ + 1]
                   ELSE acc.cardIdCounts @@ (cardId :> 1)
    IN  IF ~file.readable THEN [acc EXCEPT !.cardIdCounts = counted]
        ELSE [embeddingsData |-> Append(acc.embeddingsData,
                                        [card_id |-> cardId, filename |-> file.filename]),
              cardIdCounts |-> counted]

\* One pass of the loop of generateEmbeddingsDatabase: extractEmbedding
\* throws for an unreadable image and the catch block continues.
processImage(acc, file) ==
    IF ~file.readable THEN acc
    ELSE LET cardId == parseCardIdFromFilename(file.filename)
         IN  [embeddingsData |-> Append(acc.embeddingsData,
                                        [card_id |-> cardId, filename |-> file.filename]),
              cardIdCounts |-> IF cardId \in DOMAIN acc.cardIdCounts
                               THEN [acc.cardIdCounts EXCEPT ![cardId] = @ + 1]
                               ELSE acc.cardIdCounts @@ (cardId :> 1)]

RECURSIVE processImages(_)
processImages(imageFiles) ==
    IF imageFiles = <<>> THEN [embeddingsData |-> <<>>, cardIdCounts |-> <<>>]
    ELSE processImage(processImages(SubSeq(imageFiles, 1, Len(imageFiles) - 1)),
                      imageFiles[Len(imageFiles)])

\* generateEmbeddingsDatabase: a missing directory and an empty one return
\* (exit code 0); otherwise embeddings.json is written and copied to the
\* client whatever the loop collected.
generateEmbeddingsDatabase(dir) ==
    IF ~dir.exists THEN noRun(0)
    ELSE IF dir.imageFiles = <<>> THEN noRun(0)
    ELSE LET acc == processImages(dir.imageFiles)
             embeddingsDatabase ==
                 [total_images |-> Len(acc.embeddingsData),
                  total_cards |-> Cardinality(DOMAIN acc.cardIdCounts),
                  embeddings |-> acc.embeddingsData]
         IN  [exit |-> 0, persisted |-> Some(embeddingsDatabase),
              deployed |-> Some(embeddingsDatabase)]

\* The groups of main, in the order their card ids first appear.
RECURSIVE groupsOf(_)
groupsOf(allFiles) ==
    IF allFiles = <<>> THEN <<>>
    ELSE LET groups == groupsOf(SubSeq(allFiles, 1, Len(allFiles) - 1))
             file == allFiles[Len(allFiles)]
             cardId == getCardIdFromStem(stemOf(file.filename))
             at == {i \in 1..Len(groups) : groups[i].cardId = cardId}
         IN  IF at = {} THEN Append(groups, [cardId |-> cardId, files |-> <<file>>])
             ELSE [i \in 1..Len(groups) |->
                      IF i \in at THEN [groups[i] EXCEPT !.files = Append(@, file)]
                      ELSE groups[i]]

\* count of a group: the files whose embedding was added to sumVec
countOf(files) == Cardinality({i \in 1..Len(files) : files[i].readable})

\* finalEmbeddings: a group with no valid embedding is skipped; the mean
\* vector is stood for by the number of images it averages
RECURSIVE finalEmbeddingsOf(_)
finalEmbeddingsOf(groups) ==
    IF groups = <<>> THEN <<>>
    ELSE LET before == finalEmbeddingsOf(SubSeq(groups, 1, Len(groups) - 1))
             group == groups[Len(groups)]
         IN  IF countOf(group.files) = 0 THEN before
             ELSE Append(before, [cardId |-> group.cardId, count |-> countOf(group.files)])

\* main of scripts/generate_embeddings.js: process.exit(1) for a missing
\* directory, for no image file and for no embedding at all; it writes
\* card_embeddings.json and deploys nothing.
main(dir) ==
    IF ~dir.exists THEN noRun(1)
    ELSE IF dir.imageFiles = <<>> THEN noRun(1)
    ELSE LET finalEmbeddings == finalEmbeddingsOf(groupsOf(dir.imageFiles))
         IN  IF Len(finalEmbeddings) = 0 THEN noRun(1)
             ELSE [exit |-> 0, persisted |-> Some(finalEmbeddings), deployed |-> None]

\* Directory listings of at most MaxFiles distinct files.
Listings ==
    UNION {{l \in [1..n -> [filename : TrainingFiles, readable : BOOLEAN]] :
               \A i, j \in 1..n : l[i].filename = l[j].filename => i = j} :
           n \in 0..MaxFiles}

InitBuild ==
    /\ InitScanner
    /\ InitEmbIdle
    /\ InitApiIdle
    /\ InitClsIdle
    /\ InitHashIdle
    /\ arg \in {[exists |-> FALSE, imageFiles |-> <<>>]}
                \cup {[exists |-> TRUE, imageFiles |-> l] : l \in Listings}
    /\ ret = None
    /\ lastOp = "input"

ApplyGenerateEmbeddingsDatabase ==
    /\ lastOp = "input"
    /\ ret' = Some(generateEmbeddingsDatabase(arg))
    /\ lastOp' = "generateEmbeddingsDatabase"
    /\ UNCHANGED <<scanVars, hashVars, arg, embVars, apiVars, clsVars>>

ApplyMain ==
    /\ lastOp = "input"
    /\ ret' = Some(main(arg))
    /\ lastOp' = "main"
    /\ UNCHANGED <<scanVars, hashVars, arg, embVars, apiVars, clsVars>>

SpecBuild == InitBuild /\ [][ApplyGenerateEmbeddingsDatabase \/ ApplyMain]_vars

(***************************************************************************)
(* The hash API (api-server.js): POST /api/scan writes the upload to      *)
(* temp-scan.png, extracts the card to temp-processed.png, hashes one of  *)
(* the two files, matches the hash against the database by Hamming        *)
(* distance and unlinks both files. The handler yields at every await, so *)
(* each awaited call is a step of its own and requests interleave. A      *)
(* file's content records the upload it came from and, as bookkeeping of  *)
(* the model, the request that wrote it.                                   *)
(***************************************************************************)
\* imghash.hash(path, 16, 'hex'): 16 x 16 bits as hexadecimal digits
HASH_BITS == 16
HashDigits == (HASH_BITS * HASH_BITS) \div 4
\* findMatches(imageHash, topN = 5, maxDistance = 50)
topN == 5
maxDistance == 50

\* A hash whose first n bits are set, as digits 0..15.
hashWithBits(n) ==
    [i \in 1..HashDigits |->
        IF i <= n \div 4 THEN 15 ELSE IF i = n \div 4 + 1 THEN 2 ^ (n % 4) - 1 ELSE 0]

\* (a ^ b).toString(2).split('1').length - 1: the bits set in a xor b
xorBits(a, b) ==
    Cardinality({j \in 0..3 : (a \div 2 ^ j) % 2 # (b \div 2 ^ j) % 2})
RECURSIVE distanceUpTo(_, _, _)
distanceUpTo(hash1, hash2, n) ==
    IF n = 0 THEN 0
    ELSE distanceUpTo(hash1, hash2, n - 1) + xorBits(hash1[n], hash2[n])
\* hammingDistance; the hashes of the model have one length, so the length
\* check never throws
hammingDistance(hash1, hash2) == distanceUpTo(hash1, hash2, Len(hash1))

\* matches.sort((a, b) => a.distance - b.distance), a stable sort, as the
\* insertion of each match behind those not farther than it
insertByDistance(sorted, m) ==
    LET k == Cardinality({i \in 1..Len(sorted) : sorted[i].distance <= m.distance})
    IN  SubSeq(sorted, 1, k) \o <<m>> \o SubSeq(sorted, k + 1, Len(sorted))
RECURSIVE matchesWithin(_, _, _)
matchesWithin(imageHash, cards, limit) ==
    IF cards = <<>> THEN <<>>
    ELSE LET before == matchesWithin(imageHash, SubSeq(cards, 1, Len(cards) - 1), limit)
             card == cards[Len(cards)]
             distance == hammingDistance(imageHash, card.perceptual)
         IN  IF distance <= limit
             THEN insertByDistance(before,
                      [cardId |-> card.cardId, distance |-> distance,
                       confidence |-> Max(0, 100 - distance * 2)])
             ELSE before
findMatches(imageHash, cards) ==
    LET matches == matchesWithin(imageHash, cards, maxDistance)
    IN  SubSeq(matches, 1, Min(topN, Len(matches)))

\* Uploads: the bits by which the hash of the whole picture and the hash of
\* its extracted center differ from the first card's hash.
ScanBits == {0, 20, 21, 50, 51}
Uploads == {[full |-> 2 * n + 10, card |-> n] : n \in ScanBits}
\* imghash.hash of a file
imghash(content) ==
    IF content.cropped THEN hashWithBits(content.image.card)
    ELSE hashWithBits(content.image.full)

\* hash-database.json: the first card's hash has no bit set, the second
\* card's the first 40.
HashCards == <<[cardId |-> "sv09-001_Caterpie", perceptual |-> hashWithBits(0)],
               [cardId |-> "sv09-003_Butterfree", perceptual |-> hashWithBits(40)]>>
ScanDatabases == {SubSeq(HashCards, 1, 1), HashCards, <<HashCards[2], HashCards[1]>>}

InitScan ==
    /\ InitScanner
    /\ InitFnIdle
    /\ InitEmbIdle
    /\ InitApiIdle
    /\ InitClsIdle
    /\ hashDatabase \in ScanDatabases
    /\ tempScan = None
    /\ tempProcessed = None
    /\ scanReqs = <<>>
    /\ lastOp = "startServer"

newScan(image) ==
    [pc |-> "writeFile", image |-> image, extracted |-> FALSE, hashedFrom |-> None,
     imageHash |-> <<>>, matches |-> <<>>, status |-> 0, body |-> None]

\* A request arrives and request.file() yields its image.
ScanArrives(image) ==
    /\ Len(scanReqs) < MaxScans
    /\ scanReqs' = Append(scanReqs, newScan(image))
    /\ lastOp' = "scan"
    /\ UNCHANGED <<hashDatabase, tempScan, tempProcessed>>
    /\ UNCHANGED <<scanVars, fnVars, embVars, apiVars, clsVars>>

\* A request without a file: 400.
ScanWithoutFile ==
    /\ Len(scanReqs) < MaxScans
    /\ scanReqs' = Append(scanReqs, [newScan([full |-> 0, card |-> 0]) EXCEPT !.pc = "done", !.status = 400])
    /\ lastOp' = "scanWithoutFile"
    /\ UNCHANGED <<hashDatabase, tempScan, tempProcessed>>
    /\ UNCHANGED <<scanVars, fnVars, embVars, apiVars, clsVars>>

\* await fs.writeFile(tempPath, ...)
ScanWriteFile(r) ==
    /\ r \in 1..Len(scanReqs)
    /\ scanReqs[r].pc = "writeFile"
    /\ tempScan' = Some([image |-> scanReqs[r].image, cropped |-> FALSE, writer |-> r])
    /\ scanReqs' = [scanReqs EXCEPT ![r].pc = "extractCard"]
    /\ lastOp' = "writeFile"
    /\ UNCHANGED <<hashDatabase, tempProcessed>>
    /\ UNCHANGED <<scanVars, fnVars, embVars, apiVars, clsVars>>

\* await extractCard(tempPath, processedPath): sharp reads temp-scan.png and
\* writes its center to temp-processed.png; any failure returns false.
ScanExtractCard(r) ==
    /\ r \in 1..Len(scanReqs)
    /\ scanReqs[r].pc = "extractCard"
    /\ IF tempScan = None
       THEN /\ scanReqs' = [scanReqs EXCEPT ![r].pc = "hash", ![r].extracted = FALSE]
            /\ UNCHANGED tempProcessed
       ELSE /\ tempProcessed' = Some([image |-> tempScan[1].image, cropped |-> TRUE,
                                      writer |-> r])
            /\ scanReqs' = [scanReqs EXCEPT ![r].pc = "hash", ![r].extracted = TRUE]
    /\ lastOp' = "extractCard"
    /\ UNCHANGED <<hashDatabase, tempScan>>
    /\ UNCHANGED <<scanVars, fnVars, embVars, apiVars, clsVars>>

\* await imghash.hash(hashPath, 16, 'hex') and findMatches(imageHash); a
\* missing file throws into the catch block: 500, nothing unlinked.
ScanHash(r) ==
    /\ r \in 1..Len(scanReqs)
    /\ scanReqs[r].pc = "hash"
    /\ LET file == IF scanReqs[r].extracted THEN tempProcessed ELSE tempScan
       IN  IF file = None
           THEN scanReqs' = [scanReqs EXCEPT ![r].pc = "done", ![r].status = 500]
           ELSE scanReqs' = [scanReqs EXCEPT
                    ![r].pc = "unlinkTemp",
                    ![r].hashedFrom = file,
                    ![r].imageHash = imghash(file[1]),
                    ![r].matches = findMatches(imghash(file[1]), hashDatabase)]
    /\ lastOp' = "hash"
    /\ UNCHANGED <<hashDatabase, tempScan, tempProcessed>>
    /\ UNCHANGED <<scanVars, fnVars, embVars, apiVars, clsVars>>

\* await fs.unlink(tempPath).catch(() => {})
ScanUnlinkTemp(r) ==
    /\ r \in 1..Len(scanReqs)
    /\ scanReqs[r].pc = "unlinkTemp"
    /\ tempScan' = None
    /\ scanReqs' = [scanReqs EXCEPT ![r].pc = "unlinkProcessed"]
    /\ lastOp' = "unlinkTemp"
    /\ UNCHANGED <<hashDatabase, tempProcessed>>
    /\ UNCHANGED <<scanVars, fnVars, embVars, apiVars, clsVars>>

\* await fs.unlink(processedPath).catch(() => {}) and the response
ScanUnlinkProcessed(r) ==
    /\ r \in 1..Len(scanReqs)
    /\ scanReqs[r].pc = "unlinkProcessed"
    /\ tempProcessed' = None
    /\ LET matches == scanReqs[r].matches
       IN  scanReqs' = [scanReqs EXCEPT
               ![r].pc = "done",
               ![r].status = 200,
               ![r].body = IF Len(matches) = 0
                           THEN Some([matched |-> FALSE, card |-> None])
                           ELSE Some([matched |-> TRUE, card |-> Some(matches[1])])]
    /\ lastOp' = "respond"
    /\ UNCHANGED <<hashDatabase, tempScan>>
    /\ UNCHANGED <<scanVars, fnVars, embVars, apiVars, clsVars>>

NextScan ==
    \/ \E image \in Uploads : ScanArrives(image)
    \/ ScanWithoutFile
    \/ \E r \in 1..MaxScans : ScanWriteFile(r)
    \/ \E r \in 1..MaxScans : ScanExtractCard(r)
    \/ \E r \in 1..MaxScans : ScanHash(r)
    \/ \E r \in 1..MaxScans : ScanUnlinkTemp(r)
    \/ \E r \in 1..MaxScans : ScanUnlinkProcessed(r)

SpecScan == InitScan /\ [][NextScan]_vars

(***************************************************************************)
(* The claims.                                                             *)
(***************************************************************************)

\* C1: checkForValidHit confirms a history if and only if it has at least 3
\* entries, its last 3 entries carry one cardId and each of their
\* similarities is strictly greater than 65; the result carries that cardId.
LastThreeAgree(h) ==
    /\ Len(h) >= 3
    /\ h[Len(h) - 2].cardId = h[Len(h)].cardId
    /\ h[Len(h) - 1].cardId = h[Len(h)].cardId
    /\ \A i \in (Len(h) - 2)..Len(h) : h[i].similarity > 65
ValidHitIffThreeAgree ==
    lastOp = "checkForValidHit" =>
        /\ (ret # None) <=> LastThreeAgree(arg)
        /\ ret # None => ret[1].cardId = arg[Len(arg)].cardId
ValidHitConfirmed ==
    /\ lastOp = "checkForValidHit"
    /\ Len(arg) > 3
    /\ ret # None

\* C2: in a scan session at most one inference is in flight: a tick never
\* starts an identify request while the previous one has not completed.
OneInferenceInFlight ==
    Cardinality({r \in inflight : ~r.stale}) <= 1

\* C3: the result of an inference that was in flight when scanning stopped
\* is discarded: it is never an entry of the hit history.
StaleResultDiscarded ==
    \A i \in 1..Len(hitHistory) : ~hitHistory[i].stale

\* C4: hits enter the history in the order their frames were captured.
HitsInCaptureOrder ==
    \A i, j \in 1..Len(hitHistory) :
        (i < j /\ ~hitHistory[i].stale /\ ~hitHistory[j].stale)
            => hitHistory[i].frame < hitHistory[j].frame

\* C5: the history never holds more than 10 hits; a hit appended to a full
\* history evicts exactly the oldest entry, becomes the last entry and leaves
\* the others in their order.
HistoryCappedFifo ==
    [][/\ Len(hitHistory') <= 10
       /\ (lastOp' = "response" /\ Len(hitHistory) = 10) =>
              /\ Len(hitHistory') = 10
              /\ \A i \in 1..9 : hitHistory'[i] = hitHistory[i + 1]
              /\ \E r \in inflight \ inflight' : hitHistory'[10].frame = r.frame]_vars
HistoryOverflowed ==
    /\ lastOp = "response"
    /\ Len(hitHistory) = 10
    /\ hitHistory[1].frame > 1

\* C6: a confirmation stores the result and halts acquisition in the same
\* step (timer handle cleared, stream handle dropped, isScanning false), and
\* while the result stays confirmed (no start, no scan again) no frame is
\* captured.
ConfirmationHaltsAcquisition ==
    [][/\ (validHit = None /\ validHit' # None) =>
              (~isScanning' /\ intervalRef' = NoRef /\ streamRef' = NoRef)
       /\ (validHit # None /\ validHit' # None) => nextFrame' = nextFrame]_vars

\* C7: stopScanning is atomic: after it (Stop button, unmount, confirmation)
\* the recorded timer is cleared, the recorded stream stopped, both handles
\* dropped and isScanning false; in no state is the timer handle cleared
\* while the stream handle is held.
StopScanningAtomic ==
    [][/\ intervalRef' = NoRef => streamRef' = NoRef
       /\ (\/ lastOp' \in {"stopScanning", "unmount"}
           \/ (validHit' # validHit /\ validHit' # None)) =>
              /\ intervalRef' = NoRef
              /\ streamRef' = NoRef
              /\ ~isScanning'
              /\ intervalRef # NoRef => intervalRef \notin liveTimers'
              /\ streamRef # NoRef => streamRef \notin liveStreams']_vars
StoppedWhileScanning ==
    /\ lastOp = "stopScanning"
    /\ inflight # {}
    /\ intervalRef = NoRef
    /\ streamRef = NoRef
    /\ liveTimers = {}
    /\ liveStreams = {}

\* C8: Scan Again clears the confirmed result and the history and asks for
\* the camera in the same step; the history holds only hits recorded since,
\* so a confirmation is never held with fewer than 3 of them.
ScanAgainRestartsEmpty ==
    [][/\ lastOp' = "scanAgain" =>
              /\ validHit # None
              /\ validHit' = None
              /\ hitHistory' = <<>>
              /\ pendingStarts' = pendingStarts \cup {nextReq}
       /\ validHit' # None => Len(hitHistory') >= 3]_vars
ConfirmedAgainAfterScanAgain ==
    /\ validHit # None
    /\ nextReq = 3
    /\ Len(hitHistory) = 3
    /\ hitHistory[1].frame = 4
    /\ hitHistory[3].frame = 6

\* C9 as stated: only hits accepted by the single-frame policy (similarity at
\* least 0.5) are in the history.
OnlyAcceptedHitsRecorded ==
    \A i \in 1..Len(hitHistory) : hitHistory[i].similarity >= 50

\* C9 as amended: the top match of every answered frame is appended to the
\* history of the mounted scanner whatever its similarity, and a confirmation
\* is produced only when each of the last 3 entries exceeds 65.
EveryTopMatchRecorded ==
    [][(lastOp' = "response" /\ mounted) =>
          /\ hitHistory' # <<>>
          /\ \E r \in inflight \ inflight' :
                 hitHistory'[Len(hitHistory')].frame = r.frame
          /\ (validHit' # validHit /\ validHit' # None) =>
                 \A i \in (Len(hitHistory') - 2)..Len(hitHistory') :
                     hitHistory'[i].similarity > 65]_vars
LowHitInterruptsRun ==
    /\ lastOp = "response"
    /\ Len(hitHistory) = 3
    /\ \A i \in 1..3 : hitHistory[i].cardId = hitHistory[1].cardId
    /\ hitHistory[1].similarity = 70
    /\ hitHistory[2].similarity = 40
    /\ hitHistory[3].similarity = 70
    /\ validHit = None

\* C10: in the embedding scanner the top-1 card of a frame is displayed if and
\* only if its similarity is at least 0.5 and it leads the second-best
\* similarity by at least 0.05 (a catalog of one card has no second best);
\* a frame that is rejected leaves the displayed result empty.
Top1(scores) == CHOOSE x \in {scores[i] : i \in DOMAIN scores} :
                    \A i \in DOMAIN scores : scores[i] <= x
MarginHolds(scores) ==
    \A i \in DOMAIN scores :
        scores[i] = Top1(scores) =>
            \A j \in DOMAIN scores \ {i} : Top1(scores) - scores[j] >= 5
PolicyThresholdAndMargin ==
    (lastOp = "captureAndPredict" /\ frameScores # <<>>) =>
        /\ (result # None) <=> (Top1(frameScores) >= 50 /\ MarginHolds(frameScores))
        /\ result # None =>
               /\ result[1].confidence = Top1(frameScores)
               /\ \E i \in DOMAIN frameScores :
                      /\ frameScores[i] = Top1(frameScores)
                      /\ result[1].cardId = embeddings[i]
HighTop1RejectedOnMargin ==
    /\ lastOp = "captureAndPredict"
    /\ frameScores = <<96, 100>>
    /\ result = None

\* C11: in the embedding scanner a result computed from an earlier frame is
\* not displayed (result set while isScanning) after a later frame ended with
\* no best candidate or with an error, nor when scanning starts again after
\* a stop.
DisplayedResultFresh ==
    [][lastOp' \in {"captureZeroNorm", "captureThrows", "cameraGranted"} =>
           ~(isScanning' /\ result' # None)]_vars

\* C12: for a non-empty catalog findNearestCard returns the card_id and the
\* similarity of the entry with the greatest cosine similarity, the first of
\* them in catalog order when several tie.
NearestIsFirstGreatest ==
    (lastOp = "findNearestCard" /\ ~arg.nan /\ Len(arg.catalog) > 0) =>
        \E i \in 1..Len(arg.catalog) :
            /\ ret.cardId = arg.catalog[i]
            /\ ret.similarity = arg.cos[i]
            /\ \A j \in 1..Len(arg.catalog) : arg.cos[j] <= arg.cos[i]
            /\ \A j \in 1..(i - 1) : arg.cos[j] < arg.cos[i]

\* C13: every 200 response names the card_id of an entry of the loaded
\* catalog with that entry's similarity (in percent).
SuccessNamesCatalogEntry ==
    (lastOp = "handler" /\ ret.status = 200) =>
        \E i \in 1..Len(cachedEmbeddings[1]) :
            /\ ret.body[1].cardId = cachedEmbeddings[1][i]
            /\ ~arg.nan
            /\ ret.body[1].similarity = arg.cos[i] * 10

\* C14: a POST whose image is missing or malformed (absent, a string without
\* the comma of a data URL, bytes that do not decode to an image) is answered
\* with a 4xx status.
MalformedImageIsClientError ==
    (/\ lastOp = "handler"
     /\ arg.method = "POST"
     /\ arg.image \in {"absent", "noComma", "undecodable"}
     /\ ret.stage \notin {"loadModel", "loadEmbeddings"}) =>
        (ret.status >= 400 /\ ret.status <= 499)

\* C15: when the feature extractor or the embeddings cannot be loaded the
\* answer has a service-unavailable-class status: a 5xx other than the 500 of
\* an inference failure.
LoadFailureIsServiceUnavailable ==
    (lastOp = "handler" /\ ret.stage \in {"loadModel", "loadEmbeddings"}) =>
        (ret.status > 500 /\ ret.status <= 599)

\* C16: a query embedding of norm zero is a processing failure of its frame:
\* the request is not answered with a success.
ZeroNormIsFailure ==
    (lastOp = "handler" /\ arg.nan) => ret.status # 200

\* C20: after every completed or failed inference no per-inference tensor
\* is live.
NoTensorLeft ==
    numTensors = 0

\* C17: a frame whose video width or height is zero is skipped: no inference
\* is issued for it.
ZeroSizeFrameSkipped ==
    \A r \in inflight : r.ready

\* C18: a failed inference (fetch rejects, non-OK status) produces no update
\* and leaves the session running: timer, stream, handles, isScanning, the hit
\* history and the confirmed result are as before, so later frames are still
\* captured.
FailedInferenceNoUpdate ==
    [][lastOp' = "responseError" =>
           /\ isScanning' = isScanning
           /\ liveTimers' = liveTimers
           /\ liveStreams' = liveStreams
           /\ intervalRef' = intervalRef
           /\ streamRef' = streamRef
           /\ hitHistory' = hitHistory
           /\ validHit' = validHit
           /\ error' = error]_vars
LaterFrameRecordedAfterFailure ==
    /\ lastOp = "response"
    /\ nextReq = 2
    /\ isScanning
    /\ inflight = {}
    /\ Len(hitHistory) = 1
    /\ hitHistory[1].frame = 3
    /\ ~hitHistory[1].stale

\* C19: when getUserMedia rejects scanning does not start: isScanning, the
\* timers, the streams and both handles are as before the rejection (false,
\* none and null when no other start has succeeded) and an error message is
\* set.
CameraFailureDoesNotStart ==
    [][lastOp' = "cameraDenied" =>
           /\ isScanning' = isScanning
           /\ liveTimers' = liveTimers
           /\ liveStreams' = liveStreams
           /\ intervalRef' = intervalRef
           /\ streamRef' = streamRef
           /\ mounted => error' # NULL
           /\ (nextReq = 2 /\ mounted) =>
                  (~isScanning' /\ liveTimers' = {} /\ intervalRef' = NoRef
                   /\ streamRef' = NoRef)]_vars
CameraDeniedWhileIdle ==
    /\ lastOp = "cameraDenied"
    /\ mounted
    /\ nextReq = 2
    /\ ~isScanning
    /\ error # NULL
    /\ intervalRef = NoRef
    /\ streamRef = NoRef
    /\ liveTimers = {}

\* C22: on confirmation the reported confidence is the arithmetic mean of the
\* three hits of the confirmation window: their sum divided by 3 (70, 68 and
\* 90 give 76).
ConfidenceIsMeanOfWindow ==
    (lastOp = "checkForValidHit" /\ ret # None) =>
        /\ ret[1].similarity.den = 3
        /\ ret[1].similarity.num =
               arg[Len(arg) - 2].similarity + arg[Len(arg) - 1].similarity
               + arg[Len(arg)].similarity
MeanOfSeventySixtyEightNinety ==
    /\ lastOp = "checkForValidHit"
    /\ ret # None
    /\ Len(arg) = 4
    /\ arg[1].similarity = 65
    /\ arg[2].similarity = 70
    /\ arg[3].similarity = 68
    /\ arg[4].similarity = 90
    /\ ret[1].similarity.num = 76 * ret[1].similarity.den

\* C23: for a source of nonzero size the crop rectangle has the target
\* aspect, lies inside the source and is centered on the cropped axis: a
\* wider source keeps its full height with equal left and right margins, a
\* taller one its full width with equal top and bottom margins.
CropInsideCenteredAtAspect ==
    (lastOp = "centerCrop" /\ arg.videoWidth # 0 /\ arg.videoHeight # 0) =>
        /\ ret # None
        /\ LET r == ret[1]
               w == arg.videoWidth * CropUnit
               h == arg.videoHeight * CropUnit
           IN  /\ r.sWidth * CARD_ASPECT.den = r.sHeight * CARD_ASPECT.num
               /\ r.sx >= 0 /\ r.sy >= 0
               /\ r.sx + r.sWidth <= w
               /\ r.sy + r.sHeight <= h
               /\ r.sx = w - (r.sx + r.sWidth)
               /\ r.sy = h - (r.sy + r.sHeight)
               /\ arg.videoWidth * 440 > arg.videoHeight * 320 =>
                      (r.sHeight = h /\ r.sy = 0)
               /\ arg.videoWidth * 440 < arg.videoHeight * 320 =>
                      (r.sWidth = w /\ r.sx = 0)
WiderSourceCropped ==
    /\ lastOp = "centerCrop"
    /\ arg.videoWidth = 12
    /\ arg.videoHeight = 9
    /\ ret # None
    /\ ret[1].sx > 0
    /\ ret[1].sHeight = 9 * CropUnit

\* C30: in both background modes (close-up, scale 0.85 to 0.95, and scene,
\* scale 0.60 to 0.90) and for every jitter draw the composed card lies
\* inside the 320 x 440 background: 0 <= offsetX, offsetX + newWidth <= 320,
\* 0 <= offsetY and offsetY + newHeight <= 440.
CardInsideBackground ==
    lastOp = "composite" =>
        /\ 0 <= ret[1].offsetX
        /\ ret[1].offsetX + ret[1].newWidth <= 320
        /\ 0 <= ret[1].offsetY
        /\ ret[1].offsetY + ret[1].newHeight <= 440
SceneCardAtLargestJitter ==
    /\ lastOp = "composite"
    /\ arg.mode = "placeCardInScene"
    /\ arg.scaleFactor = 600
    /\ arg.drawX = 51
    /\ arg.drawY = -70
    /\ ret[1].newWidth = 192
    /\ ret[1].offsetX = 115
    /\ ret[1].offsetY = 18

\* C28: for every card id of the pattern <id>_<label> and every variant
\* index i, the card id parsed back from <cardId>_original.png and from
\* <cardId>_aug<i>.png equals cardId, in both catalog builders.
ParsedIdIsCardId ==
    lastOp = "parse" =>
        \A i \in 1..Len(ret[1].files) :
            /\ ret[1].parsed[i] = arg.cardId
            /\ ret[1].grouped[i] = arg.cardId

\* C21: a catalog build in which no item or image was processed
\* successfully ends as a fatal build error and persists or deploys no
\* catalog; the failure of one image only skips that image and the build
\* goes on with the others.
NoneProcessed == \A i \in 1..Len(arg.imageFiles) : ~arg.imageFiles[i].readable
EmptyBuildIsFatal ==
    (lastOp \in {"generateEmbeddingsDatabase", "main"} /\ NoneProcessed) =>
        /\ ret[1].exit # 0
        /\ ret[1].persisted = None
        /\ ret[1].deployed = None

\* C29: in the persisted embeddings database total_images is the number of
\* stored entries and total_cards the number of distinct card_id values
\* among them, whichever images failed during the build.
TotalsMatchEntries ==
    (lastOp = "generateEmbeddingsDatabase" /\ ret[1].persisted # None) =>
        LET db == ret[1].persisted[1]
        IN  /\ db.total_images = Len(db.embeddings)
            /\ db.total_cards =
                   Cardinality({db.embeddings[i].card_id : i \in 1..Len(db.embeddings)})
PersistedWithFailedCard ==
    /\ lastOp = "generateEmbeddingsDatabase"
    /\ Len(arg.imageFiles) = 3
    /\ parseCardIdFromFilename(arg.imageFiles[1].filename)
           # parseCardIdFromFilename(arg.imageFiles[2].filename)
    /\ arg.imageFiles[1].readable
    /\ ~arg.imageFiles[2].readable
    /\ arg.imageFiles[3].readable
    /\ ret[1].persisted # None
    /\ ret[1].persisted[1].total_images = 2
    /\ ret[1].persisted[1].total_cards = 1

\* C24: the hash-based /api/scan reports matched: true only for a card
\* within Hamming distance 20 of the scanned image's hash; when every card
\* is farther than 20 it reports matched: false.
MatchedOnlyWithinTwenty ==
    \A r \in 1..Len(scanReqs) :
        scanReqs[r].status = 200 =>
            /\ scanReqs[r].body[1].matched => scanReqs[r].body[1].card[1].distance <= 20
            /\ (\A i \in 1..Len(hashDatabase) :
                    hammingDistance(scanReqs[r].imageHash, hashDatabase[i].perceptual) > 20)
                   => ~scanReqs[r].body[1].matched

\* C27: two concurrent /api/scan requests each compute their hash and their
\* matches from their own image: the temporary files of one request are
\* never read, overwritten or deleted by another.
EachScanUsesOwnFiles ==
    \A r \in 1..Len(scanReqs) :
        /\ scanReqs[r].status # 500
        /\ scanReqs[r].hashedFrom # None =>
               /\ scanReqs[r].hashedFrom[1].writer = r
               /\ scanReqs[r].hashedFrom[1].image = scanReqs[r].image

\* C25: after any sequence of Start, Stop, Scan again, unmount and camera
\* grants, a second start before the first grant included, at most one timer
\* and at most one stream are live; once stopScanning has run with no start
\* outstanding, none is.
AtMostOneTimerAndStream ==
    /\ Cardinality(liveTimers) <= 1
    /\ Cardinality(liveStreams) <= 1
    /\ (lastOp \in {"stopScanning", "unmount"} /\ pendingStarts = {}) =>
           (liveTimers = {} /\ liveStreams = {})

\* C26: once a confirmed result is set, later frame results neither replace
\* nor recompute nor clear it: it changes only through a start or Scan
\* again.
ConfirmedResultKept ==
    [][(validHit # None /\ validHit' # validHit) =>
           lastOp' \in {"startScanning", "scanAgain"}]_vars

====
